---- MODULE Spec2Model ----
(***************************************************************************)
(* mdns-mirror (src/mdns_mirror/app.py): the mirror of mDNS host addresses *)
(* into a DNS zone.  The model has the main thread of mirror_mdns (startup *)
(* sweep, run loop, shutdown sweep, cancel, close), the signal handler,    *)
(* the thread of the service-type browser, one thread per service-instance *)
(* browser running on_service_instance_state_change, the two stores        *)
(* (services, servers) and the zone held by the DNS server.                *)
(***************************************************************************)
EXTENDS Naturals, Sequences, FiniteSets

----------------------------------------------------------------------------
(* Program constants *)

MAX_RETRIES == 3

(* Bounds of the model *)

\* instance events (Added, Updated, Removed) delivered in one run
MaxEvents == 2
\* instance events delivered in one run when they are delivered one at a time
MaxSerialEvents == 4
\* largest max_retries argument the retry harness passes
MaxRetriesArg == 5
\* how many invocations the harness's callable has a scripted result for
MaxScript == 4

----------------------------------------------------------------------------
(* Values *)

\* Python's None; the optional fields below hold it or a value
None == "None"
\* an absent dictionary entry / an unset local that otherwise holds a record
Absent == [absent |-> TRUE]

\* service types the type browser may report, one instance browser each
Types == {"_http", "_ssh"}
\* the instance names a browser of the type reports
NamesOf(t) == IF t = "_http" THEN {"web._http"} ELSE {"sh._ssh"}
Names == UNION {NamesOf(t) : t \in Types}

\* ServiceInfo.server, as its dot-delimited labels
Servers == {<<"host1", "local">>, <<"host1", "lan">>, <<"host2", "local">>}

\* what zc.get_service_info returns when it returns metadata
Info(server, ipv4_addresses, ipv6_addresses, host_ttl) ==
    [server |-> server, ipv4_addresses |-> ipv4_addresses,
     ipv6_addresses |-> ipv6_addresses, host_ttl |-> host_ttl]

\* the metadata the discovery provider may return
ServiceInfos ==
    { Info(<<"host1", "local">>, <<"10.0.0.5">>, <<>>, 120),
      Info(<<"host1", "local">>, <<"10.0.0.5">>, <<"fe80::1">>, 120),
      Info(<<"host1", "local">>, <<"10.0.0.6", "10.0.0.5">>, <<>>, 60),
      Info(<<"host1", "local">>, <<>>, <<"fe80::1">>, 120),
      Info(<<"host1", "lan">>, <<"10.0.0.6">>, <<>>, 120),
      Info(<<"host2", "local">>, <<"10.0.0.5">>, <<"fe80::2", "fe80::1">>, 120),
      Info(<<"host2", "local">>, <<>>, <<>>, 120) }

\* owner names of the zone: the apex, the mirrored hosts, a leftover
Apex == "@"
SOA == [name |-> Apex, rdtype |-> "SOA", ttl |-> 3600, rdata |-> "soa"]
StaleRRsets ==
    { [name |-> "stale", rdtype |-> "A", ttl |-> 120, rdata |-> "10.0.0.9"],
      [name |-> "stale", rdtype |-> "AAAA", ttl |-> 120, rdata |-> "fe80::9"],
      [name |-> "host1", rdtype |-> "A", ttl |-> 120, rdata |-> "10.0.0.5"],
      [name |-> "www", rdtype |-> "TXT", ttl |-> 120, rdata |-> "text"] }

----------------------------------------------------------------------------
(* ServerInfo: a plain class, no __eq__ *)

\* ServerInfo(ipv4_address, ipv6_address, ttl); oid is the object's identity
ServerInfo(ipv4_address, ipv6_address, ttl, oid) ==
    [ipv4_address |-> ipv4_address, ipv6_address |-> ipv6_address,
     ttl |-> ttl, oid |-> oid]

\* a != b on two ServerInfo objects (or None): object's default comparison,
\* which is identity
ServerInfoNe(a, b) ==
    IF a = Absent \/ b = Absent THEN a # b ELSE a.oid # b.oid

----------------------------------------------------------------------------
(* retry *)

\* the result of the k-th invocation of a callable given as its results
CallResult(callable, k) ==
    IF k <= Len(callable) THEN callable[k] ELSE Absent

\* range(MAX_RETRIES): the loop bound is the module constant
RetryRange(max_retries) == MAX_RETRIES

RECURSIVE RetryLoop(_, _, _, _)
RetryLoop(callable, max_retries, n, stop) ==
    IF n >= stop
    THEN [raised |-> TRUE, calls |-> n, result |-> Absent,
          message_retries |-> max_retries]
    ELSE IF CallResult(callable, n + 1) # Absent
         THEN [raised |-> FALSE, calls |-> n + 1,
               result |-> CallResult(callable, n + 1),
               message_retries |-> max_retries]
         ELSE RetryLoop(callable, max_retries, n + 1, stop)

retry(callable, max_retries) ==
    RetryLoop(callable, max_retries, 0, RetryRange(max_retries))

----------------------------------------------------------------------------
(* The DNS server: zone transfer and dynamic update on a set of RRsets *)

RECURSIVE Answer(_)
\* response.answer of the zone transfer: the zone's RRsets in the server's
\* order (one fixed order per zone content)
Answer(z) ==
    IF z = {} THEN <<>>
    ELSE LET r == CHOOSE x \in z : TRUE IN <<r>> \o Answer(z \ {r})

RECURSIVE RecordNames(_)
\* the loop of remove_all_a_records over response.answer
RecordNames(answer) ==
    IF answer = <<>> THEN <<>>
    ELSE IF Head(answer).rdtype = "A" \/ Head(answer).rdtype = "AAAA"
         THEN <<Head(answer).name>> \o RecordNames(Tail(answer))
         ELSE RecordNames(Tail(answer))

\* update.replace(name, ttl, rdtype, rdata), applied by the server
DnsReplace(z, name, ttl, rdtype, rdata) ==
    {r \in z : ~(r.name = name /\ r.rdtype = rdtype)}
        \cup {[name |-> name, rdtype |-> rdtype, ttl |-> ttl, rdata |-> rdata]}

\* a delete that names one record type: update.delete(name, "A")
DnsDeleteOnlyA(z, name) ==
    {r \in z : ~(r.name = name /\ r.rdtype = "A")}

\* update.delete(name), applied by the server: every RRset at the name
\* (the apex keeps its SOA)
DnsDelete(z, name) ==
    {r \in z : r.name # name \/ r.rdtype = "SOA"}

\* server.split(".")[0]
ServerName(server) == Head(server)

\* x[0] if x else None
First(list) == IF list # <<>> THEN list[1] ELSE None

----------------------------------------------------------------------------
(* State *)

VARIABLES
    pc,             \* where the main thread is in command / mirror_mdns
    exit_event,     \* exit_event.is_set()
    error_event,    \* error_event.is_set()
    record_names,   \* remove_all_a_records: the names still to delete
    zone,           \* the RRsets the DNS server holds for dns_zone
    services,       \* services: instance name -> stored ServiceInfo
    servers,        \* servers: server -> ServerInfo
    browsers,       \* service_instance_browsers, in order of creation
    type_browser,   \* service_type_browser and its thread
    th,             \* per service type: the instance browser's thread
    zc_closed,      \* zc.close() has run
    exit_status,    \* <<the process's exit status>>, <<>> while it runs
    fatal_reported, \* fatal_error() has printed its notice
    nevents,        \* instance events delivered so far
    sweep_issued,   \* the deletes the sweep in progress has sent
    left_on_error,  \* error_event as the run loop saw it on leaving
    sweep_failed,   \* a DNS call of the shutdown sweep failed
    last_upsert,    \* the last callback that returned, if a completed upsert
    first_issued,   \* the deletes the startup sweep sent (kept where a run records them)
    rt              \* retry harness: arguments and outcome of one call

vars == <<pc, exit_event, error_event, record_names, zone, services, servers,
          browsers, type_browser, th, zc_closed, exit_status, fatal_reported,
          nevents, sweep_issued, left_on_error, sweep_failed, last_upsert,
          first_issued, rt>>

harness_vars == <<first_issued, rt>>

\* the fields a comparison of snapshots by value would look at
Snapshot(server_info) ==
    IF server_info = Absent THEN Absent
    ELSE [ipv4_address |-> server_info.ipv4_address,
          ipv6_address |-> server_info.ipv6_address,
          ttl |-> server_info.ttl]

\* a browser thread with no callback running.  Of a running callback:
\* its event (op, name), its locals (service_info, server_info), what
\* servers.get returned to it at line 186 (stored), the updates it has sent
\* (issued), whether it has raised
IdleThread(p) ==
    [pc |-> p, op |-> None, name |-> None, service_info |-> Absent,
     server_info |-> Absent, stored |-> Absent, issued |-> <<>>,
     raised |-> FALSE]

\* a start with the type browser created before the sweep, as if line 240
\* came before line 110
InitBrowserFirst(zones) ==
    /\ pc = "startup_xfr"
    /\ exit_event = FALSE
    /\ error_event = FALSE
    /\ record_names = <<>>
    /\ zone \in zones
    /\ services = [n \in Names |-> Absent]
    /\ servers = [s \in Servers |-> Absent]
    /\ browsers = <<>>
    /\ type_browser = "idle"
    /\ th = [t \in Types |-> IdleThread("none")]
    /\ zc_closed = FALSE
    /\ exit_status = <<>>
    /\ fatal_reported = FALSE
    /\ nevents = 0
    /\ sweep_issued = <<>>
    /\ left_on_error = FALSE
    /\ sweep_failed = FALSE
    /\ last_upsert = Absent
    /\ first_issued = <<>>

\* the state mirror_mdns is in when it reaches line 87: handlers installed,
\* nothing discovered, the zone as the previous run or the operator left it
InitProgram(zones) ==
    /\ pc = "startup_xfr"
    /\ exit_event = FALSE
    /\ error_event = FALSE
    /\ record_names = <<>>
    /\ zone \in zones
    /\ services = [n \in Names |-> Absent]
    /\ servers = [s \in Servers |-> Absent]
    /\ browsers = <<>>
    /\ type_browser = "none"
    /\ th = [t \in Types |-> IdleThread("none")]
    /\ zc_closed = FALSE
    /\ exit_status = <<>>
    /\ fatal_reported = FALSE
    /\ nevents = 0
    /\ sweep_issued = <<>>
    /\ left_on_error = FALSE
    /\ sweep_failed = FALSE
    /\ last_upsert = Absent
    /\ first_issued = <<>>

\* zones a run may start on
StartZones ==
    { {SOA} \cup z : z \in {{}, {r \in StaleRRsets : r.name = "stale"},
                           {r \in StaleRRsets : r.rdtype = "A"}} }
AllZones == { {SOA} \cup z : z \in SUBSET StaleRRsets }

Init == InitProgram(StartZones) /\ rt = Absent

----------------------------------------------------------------------------
(* The main thread: command and mirror_mdns *)

\* signal_handler: SIGINT or SIGTERM, at any point of the run
SignalHandler ==
    /\ pc # "exited"
    /\ ~exit_event
    /\ exit_event' = TRUE
    /\ UNCHANGED <<pc, error_event, record_names, zone, services, servers,
                   browsers, type_browser, th, zc_closed, exit_status,
                   fatal_reported, nevents, sweep_issued, left_on_error,
                   sweep_failed, last_upsert, harness_vars>>

\* remove_all_a_records, lines 88-101: the zone transfer and its filter.
\* dns.query.tcp returns (ok) or raises (failed).
SweepTransfer(at, ok, failed) ==
    /\ pc = at
    /\ \/ /\ record_names' = RecordNames(Answer(zone))
          /\ pc' = ok
          /\ sweep_issued' = <<>>
          /\ UNCHANGED sweep_failed
       \/ /\ pc' = failed
          /\ sweep_failed' = (at = "shutdown_xfr" \/ sweep_failed)
          /\ UNCHANGED <<record_names, sweep_issued>>
    /\ UNCHANGED <<exit_event, error_event, zone, services, servers, browsers,
                   type_browser, th, zc_closed, exit_status, fatal_reported,
                   nevents, left_on_error, last_upsert, harness_vars>>

\* remove_all_a_records, lines 103-108: one turn of the delete loop
SweepDelete(at, failed) ==
    /\ pc = at
    /\ record_names # <<>>
    /\ \/ /\ zone' = DnsDelete(zone, Head(record_names))
          /\ sweep_issued' = Append(sweep_issued, Head(record_names))
          /\ record_names' = Tail(record_names)
          /\ UNCHANGED <<pc, sweep_failed>>
       \/ /\ pc' = failed
          /\ sweep_failed' = (at = "shutdown_del" \/ sweep_failed)
          /\ UNCHANGED <<zone, sweep_issued, record_names>>
    /\ UNCHANGED <<exit_event, error_event, services, servers, browsers,
                   type_browser, th, zc_closed, exit_status, fatal_reported,
                   nevents, left_on_error, last_upsert, harness_vars>>

\* line 110: the startup sweep; an exception leaves mirror_mdns
StartupTransfer == SweepTransfer("startup_xfr", "startup_del", "raised")
StartupDelete == SweepDelete("startup_del", "raised")

\* lines 112-244: the stores are empty, the type browser starts
StartTypeBrowser ==
    /\ pc = "startup_del"
    /\ record_names = <<>>
    /\ pc' = "running"
    /\ type_browser' = "idle"
    /\ sweep_issued' = <<>>
    /\ UNCHANGED <<exit_event, error_event, record_names, zone, services,
                   servers, browsers, th, zc_closed, exit_status,
                   fatal_reported, nevents, left_on_error,
                   sweep_failed, last_upsert, rt>>

\* lines 246-247: the loop ends when it sees either flag set
RunLoopExit ==
    /\ pc = "running"
    /\ exit_event \/ error_event
    /\ pc' = "check_exit"
    /\ left_on_error' = error_event
    /\ UNCHANGED <<exit_event, error_event, record_names, zone, services,
                   servers, browsers, type_browser, th, zc_closed, exit_status,
                   fatal_reported, nevents, sweep_issued, sweep_failed,
                   last_upsert, harness_vars>>

\* line 249: if exit_event.is_set()
CheckExit ==
    /\ pc = "check_exit"
    /\ pc' = IF exit_event THEN "shutdown_xfr" ELSE "cancel"
    /\ UNCHANGED <<exit_event, error_event, record_names, zone, services,
                   servers, browsers, type_browser, th, zc_closed, exit_status,
                   fatal_reported, nevents, sweep_issued, left_on_error,
                   sweep_failed, last_upsert, harness_vars>>

\* lines 250-253: the shutdown sweep; an exception is logged
ShutdownTransfer == SweepTransfer("shutdown_xfr", "shutdown_del", "cancel")
ShutdownDelete == SweepDelete("shutdown_del", "cancel")

ShutdownSweepDone ==
    /\ pc = "shutdown_del"
    /\ record_names = <<>>
    /\ pc' = "cancel"
    /\ UNCHANGED <<exit_event, error_event, record_names, zone, services,
                   servers, browsers, type_browser, th, zc_closed, exit_status,
                   fatal_reported, nevents, sweep_issued, left_on_error,
                   sweep_failed, last_upsert, harness_vars>>

\* line 255: service_type_browser.cancel() joins the browser's thread
CancelTypeBrowser ==
    /\ pc = "cancel"
    /\ type_browser = "idle"
    /\ type_browser' = "cancelled"
    /\ pc' = "cancel_instances"
    /\ UNCHANGED <<exit_event, error_event, record_names, zone, services,
                   servers, browsers, th, zc_closed, exit_status,
                   fatal_reported, nevents, sweep_issued, left_on_error,
                   sweep_failed, last_upsert, harness_vars>>

\* the browsers of the list not yet cancelled, in list order
Uncancelled == SelectSeq(browsers, LAMBDA t : th[t].pc # "cancelled")

\* lines 256-257: browser.cancel() joins the next browser's thread
CancelInstanceBrowser ==
    /\ pc = "cancel_instances"
    /\ Uncancelled # <<>>
    /\ th[Head(Uncancelled)].pc = "idle"
    /\ th' = [th EXCEPT ![Head(Uncancelled)] = IdleThread("cancelled")]
    /\ UNCHANGED <<pc, exit_event, error_event, record_names, zone, services,
                   servers, browsers, type_browser, zc_closed, exit_status,
                   fatal_reported, nevents, sweep_issued, left_on_error,
                   sweep_failed, last_upsert, harness_vars>>

\* line 259: zc.close(), and mirror_mdns returns
Close ==
    /\ pc = "cancel_instances"
    /\ Uncancelled = <<>>
    /\ zc_closed' = TRUE
    /\ pc' = "returned"
    /\ UNCHANGED <<exit_event, error_event, record_names, zone, services,
                   servers, browsers, type_browser, th, exit_status,
                   fatal_reported, nevents, sweep_issued, left_on_error,
                   sweep_failed, last_upsert, harness_vars>>

\* command returns and app() ends the process: no path sets a status
\* other than that of a normal return
ExitStatus(fatal) == 0

\* lines 283-284, 293: mirror_mdns returned
CommandReturn ==
    /\ pc = "returned"
    /\ pc' = "exited"
    /\ exit_status' = <<ExitStatus(error_event)>>
    /\ UNCHANGED <<exit_event, error_event, record_names, zone, services,
                   servers, browsers, type_browser, th, zc_closed,
                   fatal_reported, nevents, sweep_issued, left_on_error,
                   sweep_failed, last_upsert, harness_vars>>

\* lines 285-286, 293: mirror_mdns raised; fatal_error() and a normal return
CommandExcept ==
    /\ pc = "raised"
    /\ pc' = "exited"
    /\ fatal_reported' = TRUE
    /\ exit_status' = <<ExitStatus(TRUE)>>
    /\ UNCHANGED <<exit_event, error_event, record_names, zone, services,
                   servers, browsers, type_browser, th, zc_closed,
                   nevents, sweep_issued, left_on_error,
                   sweep_failed, last_upsert, harness_vars>>

MainThread ==
    \/ StartupTransfer \/ StartupDelete
    \/ StartTypeBrowser /\ UNCHANGED first_issued
    \/ RunLoopExit \/ CheckExit
    \/ ShutdownTransfer \/ ShutdownDelete \/ ShutdownSweepDone
    \/ CancelTypeBrowser \/ CancelInstanceBrowser \/ Close
    \/ CommandReturn \/ CommandExcept

----------------------------------------------------------------------------
(* The discovery threads: the callbacks *)

thread_frame == <<pc, exit_event, record_names, zc_closed, exit_status,
                  sweep_issued, left_on_error, sweep_failed, last_upsert,
                  harness_vars>>

\* no callback is running
Quiescent ==
    /\ type_browser # "except"
    /\ \A t \in Types : th[t].pc \in {"none", "idle", "cancelled"}

\* on_service_type_state_change, Added: a browser for the type
TypeAdded(t) ==
    /\ type_browser = "idle"
    /\ th[t].pc = "none"
    /\ browsers' = Append(browsers, t)
    /\ th' = [th EXCEPT ![t] = IdleThread("idle")]
    /\ UNCHANGED <<thread_frame, error_event, zone, services, servers,
                   type_browser, fatal_reported, nevents>>

\* on_service_type_state_change, any other state change: RuntimeError
TypeUnexpected ==
    /\ type_browser = "idle"
    /\ type_browser' = "except"
    /\ UNCHANGED <<thread_frame, error_event, zone, services, servers,
                   browsers, th, fatal_reported, nevents>>

\* on_service_type_state_change, lines 132-134
TypeExcept ==
    /\ type_browser = "except"
    /\ type_browser' = "idle"
    /\ fatal_reported' = TRUE
    /\ error_event' = TRUE
    /\ UNCHANGED <<thread_frame, zone, services, servers, browsers, th,
                   nevents>>

\* zc.get_service_info as retry calls it: empty k times, then the metadata
InfoAfter(k, info) ==
    [i \in 1..MAX_RETRIES |-> IF i <= k THEN Absent ELSE info]

\* on_service_instance_state_change, Added or Updated, lines 210-218 and
\* 225-233: the metadata through retry
UpsertEvent(t, infos, max) ==
    /\ th[t].pc = "idle"
    /\ nevents < max
    /\ nevents' = nevents + 1
    /\ \E state_change \in {"Added", "Updated"}, name \in NamesOf(t),
          info \in infos, k \in 0..MAX_RETRIES :
          LET out == retry(InfoAfter(k, info), MAX_RETRIES) IN
          th' = [th EXCEPT ![t] =
                    [@ EXCEPT !.pc = IF out.raised THEN "except" ELSE "su_store",
                              !.op = "upsert",
                              !.name = name,
                              !.service_info = out.result]]
    /\ UNCHANGED <<thread_frame, error_event, zone, services, servers,
                   browsers, type_browser, fatal_reported>>

\* on_service_instance_state_change, Removed, lines 221-222
RemovedEvent(t, max) ==
    /\ th[t].pc = "idle"
    /\ nevents < max
    /\ nevents' = nevents + 1
    /\ \E name \in NamesOf(t) :
          th' = [th EXCEPT ![t] =
                    [@ EXCEPT !.pc = "sr_pop", !.op = "remove", !.name = name]]
    /\ UNCHANGED <<thread_frame, error_event, zone, services, servers,
                   browsers, type_browser, fatal_reported>>

\* the object identities the program holds
UsedOids ==
    {servers[s].oid : s \in {x \in Servers : servers[x] # Absent}}
        \cup {th[t].server_info.oid :
                t \in {x \in Types : th[x].server_info # Absent}}
\* a new object's identity: one no live object has
FreshOid ==
    CHOOSE i \in 1..(Cardinality(UsedOids) + 1) :
        i \notin UsedOids /\ \A j \in 1..(i - 1) : j \in UsedOids

\* what the stored ServiceInfo is read for: its server (line 195)
Stored(service_info) == [server |-> service_info.server]

\* service_updated, lines 173-186: store the instance, build the candidate,
\* compare it with the stored snapshot
ServiceUpdatedCompare(t) ==
    /\ th[t].pc = "su_store"
    /\ LET service_info == th[t].service_info
           server_info ==
               ServerInfo(First(service_info.ipv4_addresses),
                          First(service_info.ipv6_addresses),
                          service_info.host_ttl, FreshOid)
       IN /\ services' = [services EXCEPT ![th[t].name] = Stored(service_info)]
          /\ th' = [th EXCEPT ![t] =
                       [@ EXCEPT !.server_info = server_info,
                                 !.stored =
                                     Snapshot(servers[service_info.server]),
                                 !.pc = IF ServerInfoNe(
                                             servers[service_info.server],
                                             server_info)
                                        THEN "su_set" ELSE "done"]]
    /\ UNCHANGED <<thread_frame, error_event, zone, servers, browsers,
                   type_browser, fatal_reported, nevents>>

\* a service_updated that calls server_updated without having stored the
\* candidate
ServiceUpdatedSetDeferred(t) ==
    /\ th[t].pc = "su_set"
    /\ th' = [th EXCEPT ![t].pc = "su_dns4"]
    /\ UNCHANGED <<thread_frame, error_event, zone, services, servers,
                   browsers, type_browser, fatal_reported, nevents>>

\* service_updated, line 187: servers[server] = server_info
ServiceUpdatedSet(t) ==
    /\ th[t].pc = "su_set"
    /\ servers' = [servers EXCEPT ![th[t].service_info.server] =
                                        th[t].server_info]
    /\ th' = [th EXCEPT ![t].pc = "su_dns4"]
    /\ UNCHANGED <<thread_frame, error_event, zone, services, browsers,
                   type_browser, fatal_reported, nevents>>

\* a server_updated that sends the A record only
ReplacesOnlyA(server_info, rdtype) ==
    rdtype = "A" /\ server_info.ipv4_address # None

\* the families server_updated replaces a record of
ReplacesFamily(server_info, rdtype) ==
    IF rdtype = "A" THEN server_info.ipv4_address # None
    ELSE server_info.ipv6_address # None

\* a server_updated that deletes the record of a family the snapshot lacks
ServerUpdatedDeleting(t, at, rdtype, next) ==
    /\ th[t].pc = at
    /\ LET server_name == ServerName(th[t].service_info.server)
           server_info == th[t].server_info
           rdata == IF rdtype = "A" THEN server_info.ipv4_address
                    ELSE server_info.ipv6_address
       IN IF ReplacesFamily(server_info, rdtype)
          THEN \/ /\ zone' = DnsReplace(zone, server_name, server_info.ttl,
                                        rdtype, rdata)
                  /\ th' = [th EXCEPT ![t] =
                               [@ EXCEPT !.pc = next,
                                         !.issued = Append(@,
                                            <<"replace", server_name,
                                              server_info.ttl, rdtype,
                                              rdata>>)]]
               \/ /\ th' = [th EXCEPT ![t].pc = "except"]
                  /\ UNCHANGED zone
          ELSE /\ zone' = {r \in zone :
                              ~(r.name = server_name /\ r.rdtype = rdtype)}
               /\ th' = [th EXCEPT ![t] =
                            [@ EXCEPT !.pc = next,
                                      !.issued = Append(@,
                                         <<"delete", server_name, rdtype>>)]]
    /\ UNCHANGED <<thread_frame, error_event, services, servers, browsers,
                   type_browser, fatal_reported, nevents>>

\* server_updated, lines 140-149 (A) and 151-160 (AAAA): one replace, sent
\* when the family's address is present; dns.query.tcp returns or raises
ServerUpdated(t, at, rdtype, next) ==
    /\ th[t].pc = at
    /\ LET server_name == ServerName(th[t].service_info.server)
           server_info == th[t].server_info
           rdata == IF rdtype = "A" THEN server_info.ipv4_address
                    ELSE server_info.ipv6_address
       IN IF ReplacesFamily(server_info, rdtype)
          THEN \/ /\ zone' = DnsReplace(zone, server_name, server_info.ttl,
                                        rdtype, rdata)
                  /\ th' = [th EXCEPT ![t] =
                               [@ EXCEPT !.pc = next,
                                         !.issued = Append(@,
                                            <<"replace", server_name,
                                              server_info.ttl, rdtype,
                                              rdata>>)]]
               \/ /\ th' = [th EXCEPT ![t].pc = "except"]
                  /\ UNCHANGED zone
          ELSE /\ th' = [th EXCEPT ![t].pc = next]
               /\ UNCHANGED zone
    /\ UNCHANGED <<thread_frame, error_event, services, servers, browsers,
                   type_browser, fatal_reported, nevents>>

ServerUpdatedA(t) == ServerUpdated(t, "su_dns4", "A", "su_dns6")
ServerUpdatedAAAA(t) == ServerUpdated(t, "su_dns6", "AAAA", "done")

\* a removal that tolerates an instance that is not stored, as
\* services.pop(name, None) would
ServiceRemovedPopLenient(t) ==
    /\ th[t].pc = "sr_pop"
    /\ IF services[th[t].name] = Absent
       THEN /\ th' = [th EXCEPT ![t].pc = "done"]
            /\ UNCHANGED services
       ELSE /\ services' = [services EXCEPT ![th[t].name] = Absent]
            /\ th' = [th EXCEPT ![t] =
                         [@ EXCEPT !.service_info = services[th[t].name],
                                   !.pc = IF servers[services[th[t].name].server]
                                              # Absent
                                          THEN "sr_del" ELSE "done"]]
    /\ UNCHANGED <<thread_frame, error_event, zone, servers, browsers,
                   type_browser, fatal_reported, nevents>>

\* service_removed, lines 192-197: pop the instance (KeyError when it is
\* not stored), look its server up
ServiceRemovedPop(t) ==
    /\ th[t].pc = "sr_pop"
    /\ IF services[th[t].name] = Absent
       THEN /\ th' = [th EXCEPT ![t].pc = "except"]
            /\ UNCHANGED services
       ELSE /\ services' = [services EXCEPT ![th[t].name] = Absent]
            /\ th' = [th EXCEPT ![t] =
                         [@ EXCEPT !.service_info = services[th[t].name],
                                   !.pc = IF servers[services[th[t].name].server]
                                              # Absent
                                          THEN "sr_del" ELSE "done"]]
    /\ UNCHANGED <<thread_frame, error_event, zone, servers, browsers,
                   type_browser, fatal_reported, nevents>>

\* service_removed, lines 198-199: take the snapshot out (KeyError when
\* another thread has deleted it since line 197)
ServiceRemovedDel(t) ==
    /\ th[t].pc = "sr_del"
    /\ LET server == th[t].service_info.server IN
       IF servers[server] = Absent
       THEN /\ th' = [th EXCEPT ![t].pc = "except"]
            /\ UNCHANGED servers
       ELSE /\ servers' = [servers EXCEPT ![server] = Absent]
            /\ th' = [th EXCEPT ![t] =
                         [@ EXCEPT !.server_info = servers[server],
                                   !.pc = "sr_dns"]]
    /\ UNCHANGED <<thread_frame, error_event, zone, services, browsers,
                   type_browser, fatal_reported, nevents>>

\* server_removed, lines 163-170: delete every record at the server's name
ServerRemoved(t) ==
    /\ th[t].pc = "sr_dns"
    /\ LET server_name == ServerName(th[t].service_info.server) IN
       \/ /\ zone' = DnsDelete(zone, server_name)
          /\ th' = [th EXCEPT ![t] =
                       [@ EXCEPT !.pc = "done",
                                 !.issued = Append(@, <<"delete", server_name>>)]]
       \/ /\ th' = [th EXCEPT ![t].pc = "except"]
          /\ UNCHANGED zone
    /\ UNCHANGED <<thread_frame, error_event, services, servers, browsers,
                   type_browser, fatal_reported, nevents>>

\* an except clause that reports the error and leaves error_event alone
CallbackExceptConfined(t) ==
    /\ th[t].pc = "except"
    /\ fatal_reported' = TRUE
    /\ th' = [th EXCEPT ![t] = [@ EXCEPT !.pc = "done", !.raised = TRUE]]
    /\ UNCHANGED <<thread_frame, error_event, zone, services, servers,
                   browsers, type_browser, nevents>>

\* on_service_instance_state_change, lines 236-238
CallbackExcept(t) ==
    /\ th[t].pc = "except"
    /\ fatal_reported' = TRUE
    /\ error_event' = TRUE
    /\ th' = [th EXCEPT ![t] = [@ EXCEPT !.pc = "done", !.raised = TRUE]]
    /\ UNCHANGED <<thread_frame, zone, services, servers, browsers,
                   type_browser, nevents>>

\* what a completed upsert leaves for the next callback to be compared with
UpsertRecord(r) ==
    IF r.op = "upsert" /\ ~r.raised
    THEN [name |-> r.name, server |-> r.service_info.server,
          ipv4_address |-> r.server_info.ipv4_address,
          ipv6_address |-> r.server_info.ipv6_address,
          ttl |-> r.server_info.ttl]
    ELSE Absent

\* the callback returns; the browser's thread waits for the next event
CallbackReturn(t) ==
    /\ th[t].pc = "done"
    /\ th' = [th EXCEPT ![t] = IdleThread("idle")]
    /\ UNCHANGED <<pc, exit_event, record_names, zc_closed, exit_status,
                   sweep_issued, left_on_error, sweep_failed, harness_vars,
                   error_event, zone, services, servers, browsers,
                   type_browser, fatal_reported, nevents>>

\* the steps of a callback once its event is delivered
CallbackStep(t) ==
    \/ ServiceUpdatedCompare(t) \/ ServiceUpdatedSet(t)
    \/ ServerUpdatedA(t) \/ ServerUpdatedAAAA(t)
    \/ ServiceRemovedPop(t) \/ ServiceRemovedDel(t) \/ ServerRemoved(t)
    \/ CallbackExcept(t)

TypeBrowserThread == (\E t \in Types : TypeAdded(t)) \/ TypeUnexpected \/ TypeExcept

----------------------------------------------------------------------------
(* Specifications *)

\* the metadata of one host
OneHostInfos == {i \in ServiceInfos : i.server = <<"host1", "local">>}

\* the program, its callbacks running concurrently
Next ==
    \/ MainThread
    \/ SignalHandler
    \/ TypeBrowserThread
    \/ \E t \in Types :
          \/ UpsertEvent(t, OneHostInfos, MaxEvents)
          \/ RemovedEvent(t, MaxEvents)
          \/ CallbackStep(t)
          \/ CallbackReturn(t) /\ UNCHANGED last_upsert

Spec == Init /\ [][Next]_vars

\* the program with its threads scheduled fairly: the main thread and every
\* callback take their next step (time.sleep returns, a DNS call returns or
\* raises), and cancel(), which joins the browser's thread, gets its turn
\* although the browser keeps delivering events
Fairness ==
    /\ WF_vars(MainThread)
    /\ SF_vars(CancelTypeBrowser)
    /\ SF_vars(CancelInstanceBrowser)
    /\ WF_vars(TypeExcept)
    /\ \A t \in Types :
          /\ WF_vars(CallbackStep(t))
          /\ WF_vars(CallbackReturn(t) /\ UNCHANGED last_upsert)

\* the metadata of one host, both families present
LiveInfos == {Info(<<"host1", "local">>, <<"10.0.0.5">>, <<"fe80::1">>, 120)}

InitLive == InitProgram({{SOA}}) /\ rt = Absent

NextLive ==
    \/ MainThread
    \/ SignalHandler
    \/ TypeBrowserThread
    \/ \E t \in Types :
          \/ UpsertEvent(t, LiveInfos, MaxEvents)
          \/ RemovedEvent(t, MaxEvents)
          \/ CallbackStep(t)
          \/ CallbackReturn(t) /\ UNCHANGED last_upsert

SpecLive == InitLive /\ [][NextLive]_vars /\ Fairness

\* the program while it runs (no signal, no fatal type event), its instance
\* events delivered one at a time, and none once a callback has failed
NextSerial ==
    \/ StartupTransfer \/ StartupDelete
    \/ StartTypeBrowser /\ UNCHANGED first_issued
    \/ \E t \in Types :
          \/ TypeAdded(t)
          \/ /\ Quiescent /\ ~error_event
             /\ UpsertEvent(t, ServiceInfos, MaxSerialEvents)
          \/ /\ Quiescent /\ ~error_event
             /\ RemovedEvent(t, MaxSerialEvents)
          \/ CallbackStep(t)
          \/ CallbackReturn(t) /\ last_upsert' = UpsertRecord(th[t])

SpecSerial == Init /\ [][NextSerial]_vars

\* the program on a network where nothing is discovered: the startup sweep
\* and the shutdown sweep run in succession, on any zone
InitSweep == InitProgram(AllZones) /\ rt = Absent

NextSweep ==
    \/ StartupTransfer \/ StartupDelete
    \/ StartTypeBrowser /\ first_issued' = sweep_issued
    \/ SignalHandler
    \/ RunLoopExit \/ CheckExit
    \/ ShutdownTransfer \/ ShutdownDelete \/ ShutdownSweepDone
    \/ CancelTypeBrowser \/ Close
    \/ CommandReturn \/ CommandExcept

SpecSweep == InitSweep /\ [][NextSweep]_vars

\* one call of retry: any max_retries, any callable
Results == {Absent, [value |-> "info"]}
Callables == UNION {[1..n -> Results] : n \in 0..MaxScript}

InitRetry ==
    /\ InitProgram({{SOA}})
    /\ rt \in [max_retries : 1..MaxRetriesArg, callable : Callables,
                out : {Absent}]

RetryCall ==
    /\ rt.out = Absent
    /\ rt' = [rt EXCEPT !.out = retry(rt.callable, rt.max_retries)]
    /\ UNCHANGED <<pc, exit_event, error_event, record_names, zone, services,
                   servers, browsers, type_browser, th, zc_closed, exit_status,
                   fatal_reported, nevents, sweep_issued, left_on_error,
                   sweep_failed, last_upsert, first_issued>>

SpecRetry == InitRetry /\ [][RetryCall]_vars

----------------------------------------------------------------------------
(* Properties *)

AddressRRsets(z) == {r \in z : r.rdtype \in {"A", "AAAA"}}

\* the instances stored in services that reference the server
Referencing(server) ==
    {n \in Names : services[n] # Absent /\ services[n].server = server}

\* C1: when an upsert completes right after a completed upsert of the same
\* instance whose metadata gave the same server and a structurally equal
\* snapshot (first IPv4, first IPv6, TTL), the second one has issued no DNS
\* mutation.
C1_NoMutationOnUnchangedMetadata ==
    \A t \in Types :
        (/\ th[t].pc = "done" /\ th[t].op = "upsert" /\ ~th[t].raised
         /\ last_upsert # Absent
         /\ last_upsert = UpsertRecord(th[t]))
            => th[t].issued = <<>>

\* C2: two events of different subscriptions that touch one server do not
\* interleave their store updates and DNS mutations: whenever no callback is
\* running, none has failed and the run loop has not ended, every address a
\* stored snapshot holds is the address the zone holds for that server's
\* name.
C2_ZoneAgreesWithSnapshot ==
    (pc = "running" /\ Quiescent /\ ~error_event) =>
        \A s \in Servers :
            servers[s] # Absent =>
                /\ servers[s].ipv4_address # None =>
                      \E r \in zone : /\ r.name = ServerName(s)
                                       /\ r.rdtype = "A"
                                       /\ r.rdata = servers[s].ipv4_address
                /\ servers[s].ipv6_address # None =>
                      \E r \in zone : /\ r.name = ServerName(s)
                                       /\ r.rdtype = "AAAA"
                                       /\ r.rdata = servers[s].ipv6_address

\* C3: after any serially processed event sequence (whenever no callback is
\* running), a server has a snapshot in servers if and only if an instance
\* stored in services references it.
C3_SnapshotIffReferenced ==
    Quiescent =>
        \A s \in Servers : (servers[s] # Absent) <=> (Referencing(s) # {})

\* C4: a call of retry whose operation returns empty at every invocation
\* invokes it exactly max_retries times and then raises.
C4_RetryBound ==
    (/\ rt.out # Absent
     /\ \A k \in 1..Len(rt.callable) : rt.callable[k] = Absent)
        => (rt.out.raised /\ rt.out.calls = rt.max_retries)

\* C5: a Removed event that completes and leaves no stored instance
\* referencing its server has issued exactly one delete of every record at
\* the server's name, whatever was removed before.
C5_LastRemovalDeletesOnce ==
    \A t \in Types :
        (/\ th[t].pc = "done" /\ th[t].op = "remove" /\ ~th[t].raised
         /\ Referencing(th[t].service_info.server) = {})
            => th[t].issued =
                  << <<"delete", ServerName(th[t].service_info.server)>> >>

\* C6: when the fatal-error flag was set as the run loop ended, the shutdown
\* sweep is not performed: the main thread never gets to the sweep's zone
\* transfer and deletes.
C6_FatalExitSkipsSweep ==
    left_on_error => pc \notin {"shutdown_xfr", "shutdown_del"}

\* C7: the process ends with a non-zero exit status exactly when a fatal
\* error was reported (by a callback that set the fatal-error flag, or for an
\* exception raised out of mirror_mdns), and with status zero otherwise.
C7_ExitStatus ==
    pc = "exited" => ((exit_status = <<0>>) <=> ~fatal_reported)

\* C8: when the process has stopped after a clean interrupt (stop flag set,
\* no fatal error, no DNS call failed), the zone holds no A and no AAAA
\* record.
C8_StoppedZoneIsClean ==
    (/\ pc = "exited" /\ zc_closed /\ exit_event
     /\ ~error_event /\ ~fatal_reported /\ ~sweep_failed)
        => AddressRRsets(zone) = {}

\* C9: the second of two sweeps run in succession with no discovery event
\* between them finds no name to delete and sends no dynamic update, whatever
\* the zone held at first.
C9_SecondSweepIssuesNothing ==
    pc = "shutdown_del" => (record_names = <<>> /\ sweep_issued = <<>>)

\* C9, its case: the shutdown sweep has run to its end after a startup sweep
\* that deleted the records of a name holding both an A and an AAAA record.
C9_Witness ==
    /\ pc = "cancel" /\ exit_event /\ ~sweep_failed
    /\ Len(first_issued) >= 2
    /\ AddressRRsets(zone) = {}

\* the discovery resources are released: every browser cancelled, the
\* provider closed
Released ==
    /\ zc_closed
    /\ type_browser = "cancelled"
    /\ \A t \in Types : th[t].pc \in {"none", "cancelled"}

\* C10: once the stop flag is set while mirror_mdns runs, mirror_mdns does
\* not end before every browser is cancelled and the discovery provider is
\* closed; no DNS failure makes it end without that.
C10_InterruptedRunReleases ==
    [][(exit_event /\ pc \notin {"raised", "returned", "exited"})
          => (pc' \in {"raised", "returned", "exited"} => Released')]_vars

\* a Removed event whose instance is not stored: before line 192 finds it
\* missing, and after the KeyError
UnknownRemoval(t) ==
    /\ th[t].op = "remove"
    /\ \/ th[t].pc = "sr_pop" /\ services[th[t].name] = Absent
       \/ th[t].pc \in {"except", "done"} /\ th[t].service_info = Absent

\* C11: a Removed event for an instance name that is not stored sets the
\* fatal-error flag by the time its callback ends, has then issued no DNS
\* mutation, and no step of that callback changes services, servers or the
\* zone.
C11_UnknownRemovalIsFatal ==
    /\ [](\A t \in Types :
            (UnknownRemoval(t) /\ th[t].pc = "done")
                => (error_event /\ fatal_reported /\ th[t].issued = <<>>))
    /\ [][\A t \in Types :
            (UnknownRemoval(t) /\ th'[t] # th[t])
                => (services' = services /\ servers' = servers /\ zone' = zone)]_vars

\* C11, its case: the only browser has had three events for its one name, the
\* third a Removed that found the name gone (so the second was a Removed that
\* took it out), and that callback has ended.
C11_Witness ==
    \E t \in Types :
        /\ UnknownRemoval(t) /\ th[t].pc = "done" /\ th[t].raised
        /\ nevents = 3
        /\ \A u \in Types \ {t} : th[u].pc = "none"

\* the replace intents of a snapshot, A before AAAA, addressed to the
\* server's first label
ReplaceIntents(server, server_info) ==
    (IF server_info.ipv4_address # None
     THEN << <<"replace", ServerName(server), server_info.ttl, "A",
               server_info.ipv4_address>> >>
     ELSE <<>>)
    \o (IF server_info.ipv6_address # None
        THEN << <<"replace", ServerName(server), server_info.ttl, "AAAA",
                  server_info.ipv6_address>> >>
        ELSE <<>>)

\* an upsert that has run to its end without raising
CompletedUpsert(t) ==
    th[t].pc = "done" /\ th[t].op = "upsert" /\ ~th[t].raised

\* C12: an upsert whose candidate differs in value from the snapshot it found
\* stored (none stored counts as different) and that runs to its end has
\* issued exactly ReplaceA(first label, ttl, first IPv4) when the candidate
\* has an IPv4 address and ReplaceAAAA(first label, ttl, first IPv6) when it
\* has an IPv6 address, in that order and nothing else, whether or not the
\* family's value changed.
C12_ReemitsEveryPresentFamily ==
    \A t \in Types :
        (CompletedUpsert(t) /\ th[t].stored # Snapshot(th[t].server_info))
            => th[t].issued =
                  ReplaceIntents(th[t].service_info.server, th[t].server_info)

\* C12, its case (Scenario B): the stored snapshot had 10.0.0.5 and no IPv6,
\* the candidate has the same IPv4 and fe80::1, and the upsert has ended
\* having sent both replaces.
C12_Witness ==
    \E t \in Types :
        /\ CompletedUpsert(t)
        /\ th[t].stored = [ipv4_address |-> "10.0.0.5", ipv6_address |-> None,
                           ttl |-> 120]
        /\ Snapshot(th[t].server_info) =
               [ipv4_address |-> "10.0.0.5", ipv6_address |-> "fe80::1",
                ttl |-> 120]
        /\ Len(th[t].issued) = 2

\* the servers that have a snapshot stored under the first label of server
StoredForIdentity(server) ==
    {s \in Servers : servers[s] # Absent /\ ServerName(s) = ServerName(server)}

\* C13: the servers store holds at most one snapshot per server identity
\* (first label of the server name), and the snapshot an upsert compared its
\* candidate with is the one stored for its server's identity: when the
\* upsert is about to write the candidate (line 187), any snapshot stored
\* under that first label is the one it compared with.
C13_SnapshotPerIdentity ==
    /\ \A s \in Servers : Cardinality(StoredForIdentity(s)) <= 1
    /\ \A t \in Types :
          th[t].pc = "su_set" =>
              \A s \in StoredForIdentity(th[t].service_info.server) :
                  th[t].stored = Snapshot(servers[s])

\* the zone's RRsets of one type at the server's first label
RRsetsAt(z, server, rdtype) ==
    {r \in z : r.name = ServerName(server) /\ r.rdtype = rdtype}

\* the upsert of thread t found a snapshot stored that had an address of the
\* family and its candidate has none
LostFamily(t, rdtype) ==
    /\ th[t].op = "upsert"
    /\ th[t].stored # Absent /\ th[t].server_info # Absent
    /\ IF rdtype = "A"
       THEN th[t].stored.ipv4_address # None
            /\ th[t].server_info.ipv4_address = None
       ELSE th[t].stored.ipv6_address # None
            /\ th[t].server_info.ipv6_address = None

\* C14: no upsert issues a delete, and no step of an upsert whose candidate
\* lacks an address family the previous snapshot had changes the zone's
\* record of that family at the server's name.
C14_UpsertLeavesMissingFamily ==
    /\ [](\A t \in Types :
            th[t].op = "upsert" =>
                \A i \in 1..Len(th[t].issued) : th[t].issued[i][1] = "replace")
    /\ [][\A t \in Types, rdtype \in {"A", "AAAA"} :
            (LostFamily(t, rdtype) /\ th'[t] # th[t])
                => RRsetsAt(zone', th[t].service_info.server, rdtype)
                       = RRsetsAt(zone, th[t].service_info.server, rdtype)]_vars

\* C14, its case: an upsert whose candidate has only an IPv6 address, on a
\* server whose stored snapshot had IPv4 10.0.0.5, has ended, has sent its
\* AAAA replace, and the zone still holds the A record 10.0.0.5.
C14_Witness ==
    \E t \in Types :
        /\ CompletedUpsert(t) /\ LostFamily(t, "A")
        /\ Len(th[t].issued) = 1
        /\ \E r \in RRsetsAt(zone, th[t].service_info.server, "A") :
              r.rdata = th[t].stored.ipv4_address

\* the owner names of the zone's A and AAAA records
OwnerNames(z) == {r.name : r \in AddressRRsets(z)}

\* the elements of a list
Range(list) == {list[i] : i \in 1..Len(list)}

\* C15: one run of the sweep issues exactly one delete for each name that
\* owns an A or AAAA record and no other: the names it has collected when
\* its zone transfer returns are the owner names, each once, and the deletes
\* it has sent so far name no owner twice.
C15_SweepDeletesOncePerName ==
    /\ (pc \in {"startup_del", "shutdown_del"} /\ sweep_issued = <<>>
          /\ record_names # <<>>)
          => (/\ Range(record_names) = OwnerNames(zone)
              /\ Len(record_names) = Cardinality(OwnerNames(zone)))
    /\ Cardinality(Range(sweep_issued)) = Len(sweep_issued)

\* C16: while the startup sweep runs (its zone transfer and its deletes)
\* no discovery subscription exists, no discovery event has been delivered
\* or reconciled (both stores are empty, no callback has started), and no
\* replace has been issued: the records the startup sweep deletes were in
\* the zone before this run mirrored anything.
C16_SweepBeforeDiscovery ==
    pc \in {"startup_xfr", "startup_del"} =>
        /\ type_browser = "none"
        /\ browsers = <<>>
        /\ \A t \in Types : th[t] = IdleThread("none")
        /\ nevents = 0
        /\ \A n \in Names : services[n] = Absent
        /\ \A s \in Servers : servers[s] = Absent

\* C16, its case: the startup sweep has sent a delete and has another to
\* send.
C16_Witness ==
    /\ pc = "startup_del"
    /\ sweep_issued # <<>> /\ record_names # <<>>
    /\ type_browser = "none"

\* every browser that was created is cancelled and the provider is closed
ReleasedAll ==
    /\ zc_closed
    /\ type_browser \in {"none", "cancelled"}
    /\ \A t \in Types : th[t].pc \in {"none", "cancelled"}

\* C17: whenever mirror_mdns has finished, by returning (after a clean
\* interrupt or with the fatal-error flag set) or by an exception of the
\* startup sweep, every browser that was created has been cancelled and the
\* discovery provider has been closed.
C17_ReleasedOnEveryExit ==
    pc \in {"returned", "raised", "exited"} => ReleasedAll

\* C18: each fatal condition of a callback (retry exhausted, a service-type
\* event other than Added, a Removed for an unknown instance, a failed DNS
\* call of a reconciliation) puts the callback in its except clause, which
\* leads to the fatal-error flag being set; and once the flag is set the
\* process eventually ends.
C18_FatalConditionStopsProcess ==
    /\ \A t \in Types : (th[t].pc = "except") ~> error_event
    /\ (type_browser = "except") ~> error_event
    /\ error_event ~> (pc = "exited")

\* C18, its case: the process has ended after a callback set the
\* fatal-error flag, with no signal received.
C18_Witness ==
    /\ pc = "exited" /\ error_event /\ ~exit_event
    /\ left_on_error /\ ReleasedAll

\* the upsert of thread t found its candidate different in value from the
\* stored snapshot and has got to server_updated (line 189) or beyond
InServerUpdated(t) ==
    /\ th[t].op = "upsert"
    /\ th[t].server_info # Absent
    /\ th[t].stored # Snapshot(th[t].server_info)
    /\ th[t].pc \in {"su_dns4", "su_dns6", "except", "done"}

\* C19: with events processed one at a time, from the moment an upsert whose
\* candidate differs from the stored snapshot is about to send its first
\* replace until its callback ends, servers[server] is the candidate; in
\* particular it is when a replace has failed and the zone was not updated.
C19_PersistBeforeMutate ==
    \A t \in Types :
        InServerUpdated(t) =>
            servers[th[t].service_info.server] = th[t].server_info

\* C19, its case: the first replace of an upsert failed; the callback has
\* ended having issued nothing, the zone has no A record for the server and
\* the store holds the candidate with its IPv4 address.
C19_Witness ==
    \E t \in Types :
        /\ InServerUpdated(t) /\ th[t].pc = "done" /\ th[t].raised
        /\ th[t].issued = <<>>
        /\ th[t].server_info.ipv4_address # None
        /\ RRsetsAt(zone, th[t].service_info.server, "A") = {}
        /\ servers[th[t].service_info.server] = th[t].server_info

\* C20: once the fatal-error flag is set, no step of a discovery callback
\* sends a DNS replace or delete.
C20_NoMutationAfterFatal ==
    [][error_event =>
          \A t \in Types : Len(th'[t].issued) <= Len(th[t].issued)]_vars

====
